---- MODULE Spec2Model ----
(***************************************************************************)
(* A model of the Hippo client (src/src/lib.rs, src/src/error.rs).         *)
(*                                                                         *)
(* Text is modelled at the level of the code: a string or a byte buffer is *)
(* a sequence of one-character strings.  A byte that is not ASCII is       *)
(* written as its hexadecimal name ("0xC3", "0xA9", "0xFF").               *)
(***************************************************************************)
EXTENDS Integers, Sequences, FiniteSets, TLC

(***************************************************************************)
(* Option<T> as a record, so that every value of a field has one shape.    *)
(***************************************************************************)
None == [some |-> FALSE, v |-> <<>>]
Some(x) == [some |-> TRUE, v |-> x]

(***************************************************************************)
(* UTF-8 validation, as core::str::from_utf8 performs it on the bytes the  *)
(* model uses: ASCII bytes are valid alone, 0xC3 is the lead byte of a     *)
(* two-byte sequence and needs a continuation byte, and 0xA9 (a            *)
(* continuation byte) or 0xFF can never start a character.                 *)
(***************************************************************************)
LeadBytes == {"0xC3"}
ContBytes == {"0xA9"}
BadBytes == {"0xFF"}

\* every lead byte has its continuation byte after it, every continuation
\* byte its lead byte before it, and no byte is one that UTF-8 never uses
ValidUtf8(b) ==
    \A k \in 1..Len(b) :
        /\ b[k] \notin BadBytes
        /\ b[k] \in LeadBytes => (k < Len(b) /\ b[k + 1] \in ContBytes)
        /\ b[k] \in ContBytes => (k > 1 /\ b[k - 1] \in LeadBytes)

\* core::str::from_utf8(&bytes): Ok(the same bytes, as text) or Err
FromUtf8(b) == IF ValidUtf8(b) THEN [ok |-> TRUE, v |-> b] ELSE [ok |-> FALSE, v |-> <<>>]

\* the least number of a non-empty set of numbers
Least(S) == CHOOSE k \in S : \A m \in S : k <= m

\* the first position at or after i that holds a character of set, or Len(s) + 1
FindFirst(s, i, set) ==
    LET at == {k \in i..Len(s) : s[k] \in set} IN
    IF at = {} THEN (IF i > Len(s) THEN i ELSE Len(s) + 1) ELSE Least(at)

\* the first position at or after i that holds no character of set, or Len(s) + 1
SkipChars(s, i, set) ==
    LET at == {k \in i..Len(s) : s[k] \notin set} IN
    IF at = {} THEN (IF i > Len(s) THEN i ELSE Len(s) + 1) ELSE Least(at)

Slice(s, from, to) == IF from > to THEN <<>> ELSE SubSeq(s, from, to)

(***************************************************************************)
(* JSON, as serde_json reads and writes it.                                *)
(* A parsed value is [t, s, items]: t is the kind ("str", "num", "null",   *)
(* "bool", "obj", "arr"), s the decoded text of a scalar, items the        *)
(* members <<[k, v], ...>> of a container in document order (k is <<>> in  *)
(* an array).                                                              *)
(***************************************************************************)
Q == "\""
BS == "\\"
JsonWs == {" ", "\n", "\t", "\r"}
ControlChars == {"\n", "\t", "\r"}
Digits == {"0", "1", "2", "3", "4", "5", "6", "7", "8", "9"}

JScalar(t, s) == [t |-> t, s |-> s, items |-> <<>>]
JContainer(t, items) == [t |-> t, s |-> <<>>, items |-> items]
PFail == [ok |-> FALSE, v |-> JScalar("null", <<>>), pos |-> 0]
POk(v, pos) == [ok |-> TRUE, v |-> v, pos |-> pos]

SkipWs(s, i) == SkipChars(s, i, JsonWs)

\* the escapes of a JSON string over the model's characters, and the
\* character each stands for
UnescapeDomain == {Q, BS, "/", "n", "t", "r"}
Unescape == [c \in UnescapeDomain |->
                CASE c = "n" -> "\n" [] c = "t" -> "\t" [] c = "r" -> "\r" [] OTHER -> c]

\* the characters of a string after its opening quote, up to the closing
\* one: plain characters are taken as they are, up to the next quote,
\* backslash, control character or byte that is not ASCII
StrSpecial == {Q, BS} \cup ControlChars \cup BadBytes \cup ContBytes \cup LeadBytes

RECURSIVE ParseStrBody(_, _, _)

\* the string from its special character at j on, got being read before it
StrBodyAt(s, j, got) ==
    IF j > Len(s) THEN PFail
    ELSE IF s[j] = Q THEN POk(JScalar("str", got), j + 1)
    ELSE IF s[j] = BS /\ j + 1 <= Len(s) /\ s[j + 1] \in UnescapeDomain
    THEN ParseStrBody(s, j + 2, Append(got, Unescape[s[j + 1]]))
    ELSE IF s[j] \in LeadBytes /\ j + 1 <= Len(s) /\ s[j + 1] \in ContBytes
    THEN ParseStrBody(s, j + 2, got \o <<s[j], s[j + 1]>>)
    ELSE PFail

PlainUpTo(s, i, acc, j) == StrBodyAt(s, j, acc \o Slice(s, i, j - 1))

ParseStrBody(s, i, acc) == PlainUpTo(s, i, acc, FindFirst(s, i, StrSpecial))

ParseString(s, i) == IF i <= Len(s) /\ s[i] = Q THEN ParseStrBody(s, i + 1, <<>>) ELSE PFail

SkipDigits(s, i) == SkipChars(s, i, Digits)

\* a non-negative integer literal without a leading zero
NumberUpTo(s, i, j) ==
    IF j = i \/ (s[i] = "0" /\ j > i + 1) THEN PFail
    ELSE POk(JScalar("num", SubSeq(s, i, j - 1)), j)

ParseNumber(s, i) == NumberUpTo(s, i, SkipDigits(s, i))

HasAt(s, i, w) == i + Len(w) - 1 <= Len(s) /\ SubSeq(s, i, i + Len(w) - 1) = w

ParseLiteral(s, i) ==
    IF HasAt(s, i, <<"n", "u", "l", "l">>) THEN POk(JScalar("null", <<>>), i + 4)
    ELSE IF HasAt(s, i, <<"t", "r", "u", "e">>) THEN POk(JScalar("bool", <<"t">>), i + 4)
    ELSE IF HasAt(s, i, <<"f", "a", "l", "s", "e">>) THEN POk(JScalar("bool", <<"f">>), i + 5)
    ELSE PFail

RECURSIVE ParseValue(_, _)
RECURSIVE ParseItems(_, _, _, _)

Closer(t) == IF t = "obj" THEN "}" ELSE "]"

\* after an item of a container of kind t: its end at e, or "," and more
ItemEnd(s, t, acc, e) ==
    IF e > Len(s) THEN PFail
    ELSE IF s[e] = Closer(t) THEN POk(JContainer(t, acc), e + 1)
    ELSE IF s[e] = "," THEN ParseItems(s, t, e + 1, acc)
    ELSE PFail

\* the item of key k whose value was parsed as v
ItemValue(s, t, acc, k, v) ==
    IF ~v.ok THEN PFail
    ELSE ItemEnd(s, t, Append(acc, [k |-> k, v |-> v.v]), SkipWs(s, v.pos))

\* the ":" of a member at c, then its value
MemberColon(s, acc, k, c) ==
    IF c > Len(s) \/ s[c] # ":" THEN PFail
    ELSE ItemValue(s, "obj", acc, k, ParseValue(s, SkipWs(s, c + 1)))

\* a member whose key was parsed as k
MemberKey(s, acc, k) ==
    IF ~k.ok THEN PFail ELSE MemberColon(s, acc, k.v.s, SkipWs(s, k.pos))

\* the items of a container of kind t from position i (after its opening
\* bracket or after a ","), up to its closing bracket
ParseItems(s, t, i, acc) ==
    IF t = "obj" THEN MemberKey(s, acc, ParseString(s, SkipWs(s, i)))
    ELSE ItemValue(s, t, acc, <<>>, ParseValue(s, SkipWs(s, i)))

\* a container of kind t whose opening bracket is before j
Container(s, t, j) ==
    IF j <= Len(s) /\ s[j] = Closer(t) THEN POk(JContainer(t, <<>>), j + 1)
    ELSE ParseItems(s, t, j, <<>>)

ParseValue(s, i) ==
    IF i > Len(s) THEN PFail
    ELSE IF s[i] = Q THEN ParseString(s, i)
    ELSE IF s[i] \in {"{", "["}
    THEN Container(s, IF s[i] = "{" THEN "obj" ELSE "arr", SkipWs(s, i + 1))
    ELSE IF s[i] \in Digits THEN ParseNumber(s, i)
    ELSE ParseLiteral(s, i)

\* a whole document: the value v, and nothing but white space after it
Document(s, v) == IF v.ok /\ SkipWs(s, v.pos) = Len(s) + 1 THEN v ELSE PFail

ParseJson(s) == Document(s, ParseValue(s, SkipWs(s, 1)))

\* a string as serde_json writes it: plain characters as they are, up to
\* the next character that is written as an escape
Escaped == {Q, BS} \cup ControlChars
Escape(c) ==
    CASE c = Q -> <<BS, Q>>
      [] c = BS -> <<BS, BS>>
      [] c = "\n" -> <<BS, "n">>
      [] c = "\t" -> <<BS, "t">>
      [] c = "\r" -> <<BS, "r">>

RECURSIVE JsonEscapeFrom(_, _)
JsonEscapeFrom(s, i) ==
    LET j == FindFirst(s, i, Escaped) IN
    IF j > Len(s) THEN Slice(s, i, Len(s))
    ELSE Slice(s, i, j - 1) \o Escape(s[j]) \o JsonEscapeFrom(s, j + 1)

JsonEscape(s) == JsonEscapeFrom(s, 1)

JsonString(s) == <<Q>> \o JsonEscape(s) \o <<Q>>
JsonOptString(o) == IF o.some THEN JsonString(o.v) ELSE <<"n", "u", "l", "l">>

(***************************************************************************)
(* The wire types of lib.rs.                                               *)
(***************************************************************************)
K_token == <<"t", "o", "k", "e", "n">>
K_expiration == <<"e", "x", "p", "i", "r", "a", "t", "i", "o", "n">>
K_username == <<"u", "s", "e", "r", "n", "a", "m", "e">>
K_password == <<"p", "a", "s", "s", "w", "o", "r", "d">>
K_appId == <<"a", "p", "p", "I", "d">>
K_appStorageId == <<"a", "p", "p", "S", "t", "o", "r", "a", "g", "e", "I", "d">>
K_revisionNumber == <<"r", "e", "v", "i", "s", "i", "o", "n", "N", "u", "m", "b", "e", "r">>

DOk(v) == [ok |-> TRUE, v |-> v]
DErr == [ok |-> FALSE, v |-> [token |-> <<>>, expiration |-> <<>>]]

\* the derived visit_map of CreateTokenResponse under deny_unknown_fields:
\* a field given twice, a field of another name or a value that is not a
\* string is an error, and so is a field left unset at the end
RECURSIVE VisitMap(_, _, _, _)
VisitMap(items, i, token, expiration) ==
    IF i > Len(items)
    THEN IF token.some /\ expiration.some
         THEN DOk([token |-> token.v, expiration |-> expiration.v])
         ELSE DErr
    ELSE IF items[i].v.t # "str" THEN DErr
    ELSE IF items[i].k = K_token /\ ~token.some
    THEN VisitMap(items, i + 1, Some(items[i].v.s), expiration)
    ELSE IF items[i].k = K_expiration /\ ~expiration.some
    THEN VisitMap(items, i + 1, token, Some(items[i].v.s))
    ELSE DErr

\* the derived visit_seq of CreateTokenResponse: the fields in declaration
\* order; serde_json rejects elements left over at the end of the array
VisitSeq(items) ==
    IF Len(items) = 2 /\ items[1].v.t = "str" /\ items[2].v.t = "str"
    THEN DOk([token |-> items[1].v.s, expiration |-> items[2].v.s])
    ELSE DErr

\* Deserializer::deserialize_struct: serde_json hands a struct a JSON
\* object (visit_map) or a JSON array (visit_seq), and nothing else
DeserializeStruct(j) ==
    IF ~j.ok THEN DErr
    ELSE IF j.v.t = "obj" THEN VisitMap(j.v.items, 1, None, None)
    ELSE IF j.v.t = "arr" THEN VisitSeq(j.v.items)
    ELSE DErr

\* serde_json::from_slice::<CreateTokenResponse>
CreateTokenResponse(body) == DeserializeStruct(ParseJson(body))

\* a variant of for_app that fills both ids
for_app_both(app_id, revision_number) ==
    [app_id |-> Some(app_id), app_storage_id |-> Some(app_id),
     revision_number |-> revision_number]

\* RegisterRevisionRequest::for_app
for_app(app_id, revision_number) ==
    [app_id |-> Some(app_id), app_storage_id |-> None, revision_number |-> revision_number]

\* RegisterRevisionRequest::for_bindle_name
for_bindle_name(bindle_name, revision_number) ==
    [app_id |-> None, app_storage_id |-> Some(bindle_name), revision_number |-> revision_number]

\* serde_json::to_string(&request): the derived Serialize writes the three
\* fields in declaration order under their camelCase names, None as null
RegisterRevisionRequest(r) ==
    <<"{">> \o JsonString(K_appId) \o <<":">> \o JsonOptString(r.app_id) \o <<",">>
      \o JsonString(K_appStorageId) \o <<":">> \o JsonOptString(r.app_storage_id) \o <<",">>
      \o JsonString(K_revisionNumber) \o <<":">> \o JsonString(r.revision_number) \o <<"}">>

\* format!("{{ \"username\": \"{}\", \"password\": \"{}\" }}", username, password)
LoginBody(username, password) ==
    <<"{", " ", Q>> \o K_username \o <<Q, ":", " ", Q>> \o username \o <<Q, ",", " ", Q>>
      \o K_password \o <<Q, ":", " ", Q>> \o password \o <<Q, " ", "}">>

\* Uuid's Display: the 32 nibbles in lower-case hexadecimal, hyphens after
\* the 8th, 12th, 16th and 20th
HexDigit == <<"0", "1", "2", "3", "4", "5", "6", "7", "8", "9", "a", "b", "c", "d", "e", "f">>
Hex(n, from, to) == [i \in 1..(to - from + 1) |-> HexDigit[n[from + i - 1] + 1]]
UuidToString(u) ==
    Hex(u, 1, 8) \o <<"-">> \o Hex(u, 9, 12) \o <<"-">> \o Hex(u, 13, 16) \o <<"-">>
      \o Hex(u, 17, 20) \o <<"-">> \o Hex(u, 21, 32)


(***************************************************************************)
(* URLs, as the url crate parses, joins and writes them.  A parsed Url is  *)
(* [scheme, host, port, path, query, fragment, cannot_be_a_base]; path is  *)
(* the sequence of the segments that follow each "/" ("/a/b/" is           *)
(* <<a, b, <<>>>>), or the one opaque path of a URL that cannot be a base. *)
(***************************************************************************)
Alpha == {"a", "b", "c", "d", "e", "f", "g", "h", "i", "j", "k", "l", "m", "n", "o", "p", "q",
          "r", "s", "t", "u", "v", "w", "x", "y", "z", "A", "I", "N", "S"}
SchemeChars == Alpha \cup Digits \cup {"+", "-", "."}
HostChars == Alpha \cup Digits \cup {"-", "."}
SpecialSchemes == {<<"h", "t", "t", "p", "s">>, <<"h", "t", "t", "p">>}

UErr == [ok |-> FALSE,
         v |-> [scheme |-> <<>>, host |-> <<>>, port |-> <<>>, path |-> <<>>,
                query |-> None, fragment |-> None, cannot_be_a_base |-> FALSE]]
UOk(u) == [ok |-> TRUE, v |-> u]

\* the pieces of s between "/" characters
RECURSIVE SplitSlash(_)
SplitAt(s, j) ==
    IF j > Len(s) THEN <<s>>
    ELSE <<Slice(s, 1, j - 1)>> \o SplitSlash(Slice(s, j + 1, Len(s)))

SplitSlash(s) == SplitAt(s, FindFirst(s, 1, {"/"}))

Dot == <<".">>
DotDot == <<".", ".">>
ButLast(q) == IF q = <<>> THEN <<>> ELSE SubSeq(q, 1, Len(q) - 1)

\* the segments segs pushed onto the path acc, "." dropped and ".." popping
\* the segment before it; a path never ends on a dot segment
RECURSIVE PushSegments(_, _)
PushSegments(acc, segs) ==
    IF segs = <<>> THEN acc
    ELSE IF Head(segs) = DotDot
    THEN PushSegments(IF Len(segs) = 1 THEN Append(ButLast(acc), <<>>) ELSE ButLast(acc),
                      Tail(segs))
    ELSE IF Head(segs) = Dot
    THEN PushSegments(IF Len(segs) = 1 THEN Append(acc, <<>>) ELSE acc, Tail(segs))
    ELSE PushSegments(Append(acc, Head(segs)), Tail(segs))

\* the segments of the path text p
Segments(p) ==
    IF p = <<>> THEN <<<<>>>>
    ELSE SplitSlash(IF Head(p) = "/" THEN Tail(p) ELSE p)

\* s is a path up to pe, then "?query" up to he, then "#fragment"
PathQueryFragmentAt(s, before, pe, he) ==
    [path |-> PushSegments(before, Segments(Slice(s, 1, pe - 1))),
     query |-> IF pe <= Len(s) /\ s[pe] = "?" THEN Some(Slice(s, pe + 1, he - 1)) ELSE None,
     fragment |-> IF he <= Len(s) THEN Some(Slice(s, he + 1, Len(s))) ELSE None]

\* the path, query and fragment of the text s, the path's segments pushed
\* onto the segments before
PathQueryFragment(s, before) ==
    PathQueryFragmentAt(s, before, FindFirst(s, 1, {"?", "#"}), FindFirst(s, 1, {"#"}))

\* the position of the ":" that ends a scheme at the start of s, or 0
SchemeEndAt(s, c) ==
    IF c <= Len(s) /\ c > 1 /\ s[1] \in Alpha /\ \A i \in 1..(c - 1) : s[i] \in SchemeChars
    THEN c ELSE 0

SchemeEnd(s) == SchemeEndAt(s, FindFirst(s, 1, {":"}))

\* a URL of host[:port] (the ":" at pc of auth) and the path, query and
\* fragment rest
Authority(auth, pc, rest, scheme, special) ==
    IF special /\ pc = 1 THEN UErr
    ELSE IF \E k \in 1..(pc - 1) : auth[k] \notin HostChars THEN UErr
    ELSE IF \E k \in (pc + 1)..Len(auth) : auth[k] \notin Digits THEN UErr
    ELSE UOk([scheme |-> scheme, host |-> Slice(auth, 1, pc - 1),
              port |-> Slice(auth, pc + 1, Len(auth)), path |-> rest.path,
              query |-> rest.query, fragment |-> rest.fragment,
              cannot_be_a_base |-> FALSE])

HostPort(auth, rest, scheme, special) ==
    Authority(auth, FindFirst(auth, 1, {":"}), rest, scheme, special)

AuthorityUpTo(s, i, ae, scheme, special) ==
    HostPort(Slice(s, i, ae - 1), PathQueryFragment(Slice(s, ae, Len(s)), <<>>),
             scheme, special)

\* host[:port] then path, query and fragment, from position i of s
ParseAuthority(s, i, scheme, special) ==
    AuthorityUpTo(s, i, FindFirst(s, i, {"/", "?", "#"}), scheme, special)

\* a URL with a path and no authority
PathOnly(scheme, rest) ==
    UOk([scheme |-> scheme, host |-> <<>>, port |-> <<>>, path |-> rest.path,
         query |-> rest.query, fragment |-> rest.fragment, cannot_be_a_base |-> FALSE])

\* a URL that cannot be a base: t, what follows the scheme, is one opaque
\* path up to pe, then "?query" up to he, then "#fragment"
Opaque(scheme, t, pe, he) ==
    UOk([scheme |-> scheme, host |-> <<>>, port |-> <<>>, path |-> <<Slice(t, 1, pe - 1)>>,
         query |-> IF pe <= Len(t) /\ t[pe] = "?" THEN Some(Slice(t, pe + 1, he - 1)) ELSE None,
         fragment |-> IF he <= Len(t) THEN Some(Slice(t, he + 1, Len(t))) ELSE None,
         cannot_be_a_base |-> TRUE])

\* s after its scheme, the ":" being at c: a special scheme takes any run
\* of slashes and then wants a host; another scheme has an authority after
\* "//", a path after "/", and is opaque otherwise
ParseAfterScheme(s, c, scheme) ==
    IF scheme \in SpecialSchemes \/ HasAt(s, c + 1, <<"/", "/">>)
    THEN ParseAuthority(s, IF scheme \in SpecialSchemes
                           THEN SkipChars(s, c + 1, {"/", BS}) ELSE c + 3,
                        scheme, scheme \in SpecialSchemes)
    ELSE IF HasAt(s, c + 1, <<"/">>)
    THEN PathOnly(scheme, PathQueryFragment(Slice(s, c + 1, Len(s)), <<>>))
    ELSE Opaque(scheme, Slice(s, c + 1, Len(s)), FindFirst(s, c + 1, {"?", "#"}) - c,
                FindFirst(s, c + 1, {"#"}) - c)

WithScheme(s, c) == IF c = 0 THEN UErr ELSE ParseAfterScheme(s, c, Slice(s, 1, c - 1))

\* Url::parse
UrlParse(s) == WithScheme(s, SchemeEnd(s))

RECURSIVE JoinSegments(_)
JoinSegments(segs) ==
    IF segs = <<>> THEN <<>> ELSE <<"/">> \o Head(segs) \o JoinSegments(Tail(segs))

\* Url::as_str
UrlToString(u) ==
    u.scheme \o <<":">>
      \o (IF u.cannot_be_a_base THEN u.path[1]
          ELSE (IF u.host # <<>> \/ u.scheme \in SpecialSchemes THEN <<"/", "/">> \o u.host ELSE <<>>)
                 \o (IF u.port # <<>> THEN <<":">> \o u.port ELSE <<>>)
                 \o JoinSegments(u.path))
      \o (IF u.query.some THEN <<"?">> \o u.query.v ELSE <<>>)
      \o (IF u.fragment.some THEN <<"#">> \o u.fragment.v ELSE <<>>)

\* base with the path, query and fragment r of a relative reference; a
\* reference that starts with "?" keeps the path of base
Resolved(base, input, r) ==
    UOk([base EXCEPT !.path = IF Head(input) = "?" THEN base.path ELSE r.path,
                     !.query = r.query, !.fragment = r.fragment])

\* Url::join: input resolved as a reference against base.  An input with
\* a scheme is parsed alone, one that starts with "//" takes the scheme of
\* base, one that starts with "/" replaces the path, and any other path
\* replaces the last segment of the path of base
UrlJoinFrom(base, input, absolute) ==
    IF absolute \/ (~base.cannot_be_a_base /\ HasAt(input, 1, <<"/", "/">>))
    THEN UrlParse(IF absolute THEN input ELSE base.scheme \o <<":">> \o input)
    ELSE IF input # <<>> /\ Head(input) = "#"
    THEN UOk([base EXCEPT !.fragment = Some(Tail(input))])
    ELSE IF base.cannot_be_a_base THEN UErr
    ELSE IF input = <<>> THEN UOk([base EXCEPT !.fragment = None])
    ELSE Resolved(base, input,
                  PathQueryFragment(input, IF Head(input) = "/" THEN <<>>
                                           ELSE ButLast(base.path)))

UrlJoin(base, input) == UrlJoinFrom(base, input, SchemeEnd(input) # 0)

(***************************************************************************)
(* Errors (error.rs) and results.                                          *)
(***************************************************************************)
ClientError(kind, detail) ==
    [kind |-> kind, status_code |-> 0, message |-> None, detail |-> detail]
InvalidRequest(status_code, message) ==
    [kind |-> "InvalidRequest", status_code |-> status_code, message |-> message, detail |-> ""]
NoError == ClientError("none", "")

Pending == [tag |-> "pending", value |-> <<>>, err |-> NoError]
Ok(value) == [tag |-> "Ok", value |-> value, err |-> NoError]
Err(e) == [tag |-> "Err", value |-> <<>>, err |-> e]
\* an unwrap() of an Err: the call does not return
Panic(detail) == [tag |-> "panic", value |-> <<>>, err |-> ClientError("panic", detail)]

(***************************************************************************)
(* Requests and what the network answers.                                  *)
(***************************************************************************)
JSON_MIME_TYPE == "application/json"
DefaultHeaders == {<<"accept", JSON_MIME_TYPE>>, <<"content-type", JSON_MIME_TYPE>>}
NoContentLength == -1

NoRequest ==
    [method |-> "", url |-> <<>>, default_headers |-> {}, authorization |-> None,
     content_length |-> NoContentLength, body |-> None]

\* what one request meets: the send fails ("send_err"), a response arrives
\* whose body cannot be read ("body_err"), or a response arrives whole
NetOutcome(kind, status, body) == [kind |-> kind, status |-> status, body |-> body]
NoOutcome == NetOutcome("none", 0, <<>>)

CREATED == 201

\* http::HeaderValue accepts no line break
HeaderValueOk(v) == \A k \in 1..Len(v) : v[k] \notin {"\n", "\r"}

Bearer(token) == <<"B", "e", "a", "r", "e", "r", " ">> \o token

P_createtoken ==
    <<"a", "c", "c", "o", "u", "n", "t", "/", "c", "r", "e", "a", "t", "e", "t", "o", "k", "e", "n">>
P_revision == <<"a", "p", "i", "/", "r", "e", "v", "i", "s", "i", "o", "n">>

(***************************************************************************)
(* The state.                                                              *)
(*   ctor     the one call of Client::new_with_options                     *)
(*   clients  the Client values that exist: the constructed one, then its  *)
(*            clones                                                       *)
(*   calls    the calls of raw and of the two registration methods, at     *)
(*            most MaxCalls of them, each on one of the clients and each   *)
(*            free to run while the others do                              *)
(***************************************************************************)
VARIABLES ctor, clients, calls
vars == <<ctor, clients, calls>>

MaxClients == 2
MaxCalls == 2
CallIds == 1..MaxCalls

NoArgs ==
    [application_id |-> <<>>, bindle_name |-> <<>>, revision_number |-> <<>>,
     method |-> "", path |-> <<>>, body |-> None]
NoClient == [danger_accept_invalid_certs |-> FALSE, default_headers |-> {}]
IdleCall ==
    [pc |-> "idle", op |-> "", self |-> 0, args |-> NoArgs, request |-> NoRequest,
     sent |-> 0, response |-> NoOutcome, result |-> Pending]

Init ==
    /\ ctor = [pc |-> "start", base_url |-> <<>>, username |-> <<>>, password |-> <<>>,
               client |-> NoClient, base |-> UErr.v, request |-> NoRequest, sent |-> 0,
               response |-> NoOutcome, token |-> Pending, result |-> Pending]
    /\ clients = <<>>
    /\ calls = [c \in CallIds |-> IdleCall]

(***************************************************************************)
(* Client::new_with_options and Client::create_token.                      *)
(***************************************************************************)
\* lib.rs 83-87: the base with a "/" pushed unless it ends with one
NormalizeBase(base_url) ==
    IF base_url # <<>> /\ base_url[Len(base_url)] = "/" THEN base_url
    ELSE Append(base_url, "/")

\* lib.rs 93-98: the transport with its default headers
HttpClient(danger_accept_invalid_certs) ==
    [danger_accept_invalid_certs |-> danger_accept_invalid_certs,
     default_headers |-> DefaultHeaders]

\* lib.rs 142-144: the login request to the joined url, or no request if
\* the join fails
LoginRequest(client, url, username, password) ==
    IF ~url.ok THEN [ok |-> FALSE, request |-> NoRequest]
    ELSE [ok |-> TRUE,
          request |-> [method |-> "POST", url |-> UrlToString(url.v),
                       default_headers |-> client.default_headers,
                       authorization |-> None, content_length |-> NoContentLength,
                       body |-> Some(LoginBody(username, password))]]

\* lib.rs 147-148: the token of the parsed response, or the error of the parse
token_of(token_response) ==
    IF ~token_response.ok THEN Err(ClientError("SerializationError", "json"))
    ELSE Ok(token_response.v.token)

\* lib.rs 145-148: create_token from the answer to its request on
create_token(net) ==
    IF net.kind = "send_err" THEN Err(ClientError("HttpClientError", "send"))
    ELSE IF net.kind = "body_err" THEN Err(ClientError("HttpClientError", "body"))
    ELSE token_of(CreateTokenResponse(net.body))

\* a variant of new_with_options that defers the login when it fails: the
\* Client is returned with an empty token
new_with_options_lazy(client, base_url, auth_token) ==
    [result |-> Ok(<<>>),
     clients |-> <<[client |-> client, base_url |-> base_url,
                    auth_token |-> IF auth_token.tag = "Ok" THEN auth_token.value ELSE <<>>]>>]

\* lib.rs 100-105: `?` on the result of create_token, then the Client
new_with_options(client, base_url, auth_token) ==
    IF auth_token.tag = "Ok"
    THEN [result |-> Ok(<<>>),
          clients |-> <<[client |-> client, base_url |-> base_url, auth_token |-> auth_token.value]>>]
    ELSE [result |-> auth_token, clients |-> <<>>]

\* lib.rs 100 and 143-145: create_token up to its await, the send of req
TokenRequested(c, req) ==
    IF ~req.ok
    THEN [c EXCEPT !.pc = "done", !.token = Err(ClientError("InvalidUrl", "join")),
                   !.result = Err(ClientError("InvalidUrl", "join"))]
    ELSE [c EXCEPT !.pc = "await_login", !.request = req.request, !.sent = c.sent + 1]

\* lib.rs 88-100: `?` on the parsed base, then `?` on the built transport,
\* then create_token
BaseParsed(c, base_parsed, built) ==
    IF ~base_parsed.ok
    THEN [c EXCEPT !.pc = "done", !.result = Err(ClientError("InvalidUrl", "base"))]
    ELSE IF ~built
    THEN [c EXCEPT !.pc = "done", !.result = Err(ClientError("Other", "builder"))]
    ELSE TokenRequested([c EXCEPT !.base = base_parsed.v],
                        LoginRequest(c.client, UrlJoin(base_parsed.v, P_createtoken),
                                     c.username, c.password))

\* new_with_options up to the first await (the send of the login request);
\* built tells whether the transport builder succeeds
NewWithOptions(base_url, username, password, danger_accept_invalid_certs, built) ==
    /\ ctor.pc = "start"
    /\ ctor' = BaseParsed([ctor EXCEPT !.base_url = base_url, !.username = username,
                                       !.password = password,
                                       !.client = HttpClient(danger_accept_invalid_certs)],
                          UrlParse(NormalizeBase(base_url)), built)
    /\ UNCHANGED <<clients, calls>>

\* the rest of create_token and of new_with_options, once the network answers
CreateTokenResume(net) ==
    /\ ctor.pc = "await_login"
    /\ \E auth_token \in {create_token(net)} :
         \E out \in {new_with_options(ctor.client, ctor.base, auth_token)} :
            /\ ctor' = [ctor EXCEPT !.pc = "done", !.response = net, !.token = auth_token,
                                    !.result = out.result]
            /\ clients' = out.clients
    /\ UNCHANGED calls

\* #[derive(Clone)]
Clone(i) ==
    /\ i \in 1..Len(clients)
    /\ Len(clients) < MaxClients
    /\ clients' = Append(clients, clients[i])
    /\ UNCHANGED <<ctor, calls>>


(***************************************************************************)
(* Client::raw and the two registration methods.                           *)
(***************************************************************************)
\* lib.rs 118-130: the request raw builds, or why none is sent (the join
\* fails, or the builder holds an error because the header value is refused)
RequestTo(self, method, url, authorization, body) ==
    IF ~url.ok THEN [sent |-> FALSE, request |-> NoRequest, err |-> "url"]
    ELSE IF ~HeaderValueOk(authorization)
    THEN [sent |-> FALSE, request |-> NoRequest, err |-> "builder"]
    ELSE [sent |-> TRUE, err |-> "",
          request |-> [method |-> method, url |-> UrlToString(url.v),
                       default_headers |-> self.client.default_headers,
                       authorization |-> Some(authorization),
                       content_length |-> IF body.some THEN Len(body.v) ELSE 0,
                       body |-> body]]

\* a variant of raw that leaves out bearer_auth
raw_no_bearer(self, method, path, body) ==
    [RequestTo(self, method, UrlJoin(self.base_url, path), <<>>, body)
        EXCEPT !.request.authorization = None]

raw(self, method, path, body) ==
    RequestTo(self, method, UrlJoin(self.base_url, path), Bearer(self.auth_token), body)

\* how a call starts: its request sent and the answer awaited, or done at
\* once with the error that kept the request from being sent
Started(op, i, args, r, err) ==
    IF r.sent
    THEN [pc |-> "await", op |-> op, self |-> i, args |-> args, request |-> r.request,
          sent |-> 1, response |-> NoOutcome, result |-> Pending]
    ELSE [pc |-> "done", op |-> op, self |-> i, args |-> args, request |-> NoRequest,
          sent |-> 0, response |-> NoOutcome, result |-> err]

Free(c) == calls[c].pc = "idle"

\* raw, up to the await of send()
Raw(c, i, method, path, body) ==
    /\ Free(c)
    /\ i \in 1..Len(clients)
    /\ LET r == raw(clients[i], method, path, body)
           args == [NoArgs EXCEPT !.method = method, !.path = path, !.body = body]
       IN calls' = [calls EXCEPT ![c] =
                        Started("raw", i, args, r, Err(ClientError("anyhow", r.err)))]
    /\ UNCHANGED <<ctor, clients>>

\* register_revision_by_application, lines 160-163, up to the await in raw
RegisterRevisionByApplication(c, i, application_id, revision_number) ==
    /\ Free(c)
    /\ i \in 1..Len(clients)
    /\ LET request == for_app(UuidToString(application_id), revision_number)
           request_json == RegisterRevisionRequest(request)
           r == raw(clients[i], "POST", P_revision, Some(request_json))
           args == [NoArgs EXCEPT !.application_id = application_id,
                                  !.revision_number = revision_number]
       IN calls' = [calls EXCEPT ![c] =
                        Started("register_revision_by_application", i, args, r,
                                Err(ClientError("Other", r.err)))]
    /\ UNCHANGED <<ctor, clients>>

\* register_revision_by_storage_id, lines 178-181, up to the await in raw
RegisterRevisionByStorageId(c, i, bindle_name, revision_number) ==
    /\ Free(c)
    /\ i \in 1..Len(clients)
    /\ LET request == for_bindle_name(bindle_name, revision_number)
           request_json == RegisterRevisionRequest(request)
           r == raw(clients[i], "POST", P_revision, Some(request_json))
           args == [NoArgs EXCEPT !.bindle_name = bindle_name,
                                  !.revision_number = revision_number]
       IN calls' = [calls EXCEPT ![c] =
                        Started("register_revision_by_storage_id", i, args, r,
                                Err(ClientError("Other", r.err)))]
    /\ UNCHANGED <<ctor, clients>>

\* lib.rs 132: what raw returns once send() is over; the body is not read
raw_send(net) ==
    IF net.kind = "send_err" THEN Err(ClientError("anyhow", "send")) ELSE Ok(<<>>)

\* lib.rs 163-168
register_revision_by_application(net) ==
    IF raw_send(net).tag = "Err" THEN Err(ClientError("Other", raw_send(net).err.detail))
    ELSE IF net.status = CREATED THEN Ok(<<>>)
    ELSE IF net.kind = "body_err" THEN Panic("bytes")
    ELSE IF ~FromUtf8(net.body).ok THEN Panic("utf8")
    ELSE Err(InvalidRequest(net.status, Some(FromUtf8(net.body).v)))

\* lib.rs 181-186
register_revision_by_storage_id(net) ==
    IF raw_send(net).tag = "Err" THEN Err(ClientError("Other", raw_send(net).err.detail))
    ELSE IF net.status = CREATED THEN Ok(<<>>)
    ELSE IF net.kind = "body_err" THEN Panic("bytes")
    ELSE IF ~FromUtf8(net.body).ok THEN Panic("utf8")
    ELSE Err(InvalidRequest(net.status, Some(FromUtf8(net.body).v)))

\* a variant of Resume that sends the request of a registration once more
\* when the answer is not 201 Created
ResumeRetry(c, net) ==
    /\ calls[c].pc = "await"
    /\ calls' = [calls EXCEPT ![c] =
                    IF calls[c].op # "raw" /\ net.status # CREATED /\ calls[c].sent < 2
                    THEN [@ EXCEPT !.sent = @ + 1]
                    ELSE [@ EXCEPT !.pc = "done", !.response = net,
                                   !.result = IF net.status = CREATED THEN Ok(<<>>)
                                              ELSE Err(InvalidRequest(net.status, None))]]
    /\ UNCHANGED <<ctor, clients>>

\* a variant of Resume that logs in again when the answer is 401: the
\* Client of the call gets a new token
ResumeReauthenticate(c, net) ==
    /\ calls[c].pc = "await"
    /\ calls' = [calls EXCEPT ![c] = [@ EXCEPT !.pc = "done", !.response = net,
                                               !.result = raw_send(net)]]
    /\ clients' = IF net.status = 401
                  THEN [clients EXCEPT ![calls[c].self].auth_token = Append(@, "2")]
                  ELSE clients
    /\ UNCHANGED ctor

\* the rest of a call, once the network answers its request
Resume(c, net) ==
    /\ calls[c].pc = "await"
    /\ LET result == CASE calls[c].op = "raw" -> raw_send(net)
                       [] calls[c].op = "register_revision_by_application" ->
                            register_revision_by_application(net)
                       [] calls[c].op = "register_revision_by_storage_id" ->
                            register_revision_by_storage_id(net)
       IN calls' = [calls EXCEPT ![c] = [@ EXCEPT !.pc = "done", !.response = net,
                                                  !.result = result]]
    /\ UNCHANGED <<ctor, clients>>


(***************************************************************************)
(* The inputs: what callers pass and what the server answers.              *)
(***************************************************************************)
HTTPS_H == <<"h", "t", "t", "p", "s", ":", "/", "/", "h">>
U_plain == HTTPS_H
U_slash == HTTPS_H \o <<"/">>
U_path == HTTPS_H \o <<"/", "v", "1">>
U_path_slash == HTTPS_H \o <<"/", "v", "1", "/">>
U_deep == HTTPS_H \o <<"/", "a", "/", "v", "1">>
U_query == HTTPS_H \o <<"/", "v", "1", "?", "q">>
U_fragment == HTTPS_H \o <<"/", "v", "1", "#", "f">>
U_port == HTTPS_H \o <<":", "5", "0">>
U_relative == <<"h">>
U_opaque == <<"m", ":", "x">>
U_nohost == <<"h", "t", "t", "p", "s", ":", "/", "/">>

BaseUrls ==
    {U_plain, U_slash, U_path, U_path_slash, U_deep, U_query, U_fragment, U_port,
     U_relative, U_opaque, U_nohost, <<>>}

\* user names and passwords: plain, empty, with a quote, with backslashes,
\* with a two-byte character, and one that closes the string and adds a field
Credentials ==
    {<<"a">>, <<>>, <<"a", Q, "b">>, <<BS>>, <<BS, BS>>, <<"0xC3", "0xA9">>,
     <<"a", Q, ",", Q, "x", Q, ":", Q, "b">>}

\* the fields a login answer may hold, and the bodies made of them
MaxFields == 3
FieldKeys == {K_token, K_expiration, <<"x">>}
FieldValues == {JScalar("str", <<"t">>), JScalar("num", <<"0">>)}
Fields == [k : FieldKeys, v : FieldValues]
FieldLists == UNION {[1..n -> Fields] : n \in 0..MaxFields}

RenderScalar(v) == IF v.t = "str" THEN JsonString(v.s) ELSE v.s

RECURSIVE RenderMembers(_, _)
RenderMembers(fs, i) ==
    IF i > Len(fs) THEN <<>>
    ELSE (IF i > 1 THEN <<",">> ELSE <<>>)
           \o JsonString(fs[i].k) \o <<":">> \o RenderScalar(fs[i].v) \o RenderMembers(fs, i + 1)

RenderObject(fs) == <<"{">> \o RenderMembers(fs, 1) \o <<"}">>

RECURSIVE RenderElements(_, _)
RenderElements(fs, i) ==
    IF i > Len(fs) THEN <<>>
    ELSE (IF i > 1 THEN <<",">> ELSE <<>>) \o RenderScalar(fs[i].v) \o RenderElements(fs, i + 1)

RenderArray(fs) == <<"[">> \o RenderElements(fs, 1) \o <<"]">>

TokenField(s) == [k |-> K_token, v |-> JScalar("str", s)]
ExpirationField == [k |-> K_expiration, v |-> JScalar("str", <<"2", "0", "9", "9">>)]
GoodBody(token) == RenderObject(<<TokenField(token), ExpirationField>>)

T_unauthorized == <<"U", "n", "a", "u", "t", "h", "o", "r", "i", "z", "e", "d">>

\* bodies that are no compact object: text that is not JSON, nothing, an
\* object cut short or followed by more, white space around an object, a
\* token to unescape, a token that is no valid UTF-8, a nested value
OtherBodies ==
    {T_unauthorized, <<>>, <<"n", "u", "l", "l">>,
     SubSeq(GoodBody(<<"t">>), 1, Len(GoodBody(<<"t">>)) - 1),
     GoodBody(<<"t">>) \o <<"x">>,
     <<" ", "\n">> \o GoodBody(<<"t">>) \o <<" ">>,
     GoodBody(<<"a", Q, BS, "\n">>),
     GoodBody(<<>>),
     <<"{", Q>> \o K_token \o <<Q, ":", Q, "0xFF", Q, ",">>
        \o RenderMembers(<<ExpirationField>>, 1) \o <<"}">>,
     <<"{", Q>> \o K_token \o <<Q, ":", "{", "}", ",">>
        \o RenderMembers(<<ExpirationField>>, 1) \o <<"}">>}

LoginBodies ==
    {RenderObject(fs) : fs \in FieldLists} \cup {RenderArray(fs) : fs \in FieldLists}
      \cup OtherBodies

LoginStatuses == {200, 401}
LoginOutcomes ==
    {NetOutcome("send_err", 0, <<>>)}
      \cup {NetOutcome("body_err", st, <<>>) : st \in LoginStatuses}
      \cup {NetOutcome("response", st, b) : st \in LoginStatuses, b \in LoginBodies}

\* a few answers to the login, for the specifications that look further on
FewLoginOutcomes ==
    {NetOutcome("send_err", 0, <<>>),
     NetOutcome("response", 200, GoodBody(<<"t">>)),
     NetOutcome("response", 200, GoodBody(<<"t", "\n">>)),
     NetOutcome("response", 401, T_unauthorized)}

\* application ids (32 nibbles each), storage ids and revision numbers
Uuids == {[k \in 1..32 |-> 0], [k \in 1..32 |-> 15], [k \in 1..32 |-> (7 * k) % 16]}
BindleNames ==
    {<<"h", ".", "r", "/", "h", "w">>, <<>>, <<"a", Q>>, <<BS>>, <<"n", "u", "l", "l">>}
RevisionNumbers == {<<"1", ".", "1", ".", "3">>, <<>>, <<Q, ",", Q>>, <<"0xC3", "0xA9">>}

Methods == {"GET", "POST"}
RawPaths == {<<"x">>, P_revision, <<"/", "x">>, <<>>, <<"h", "t", "t", "p", ":">>}
RawBodies == {None, Some(<<>>), Some(<<"0xC3", "0xA9">>)}

\* what the server answers to a call
Statuses == {200, 201, 204, 400, 401, 500}
ResponseBodies ==
    {<<>>, <<"b", "a", "d", " ", "r", "e", "v">>, <<"0xC3", "0xA9">>, <<"b", "0xFF">>,
     <<"0xC3">>}
Outcomes ==
    {NetOutcome("send_err", 0, <<>>)}
      \cup {NetOutcome("body_err", st, <<>>) : st \in Statuses}
      \cup {NetOutcome("response", st, b) : st \in Statuses, b \in ResponseBodies}

FewOutcomes ==
    {NetOutcome("send_err", 0, <<>>), NetOutcome("response", 201, <<>>),
     NetOutcome("response", 401, <<"n", "o">>), NetOutcome("response", 500, <<"b", "0xFF">>)}

(***************************************************************************)
(* The specifications.                                                     *)
(*   Spec          one construction, clones, and concurrent callers        *)
(*   SpecLogin     the construction alone, over every base, credential and *)
(*                 answer to the login                                     *)
(*   SpecUrl       every base, then calls by one caller                    *)
(*   SpecRegister  one base, then calls by one caller over every argument  *)
(*                 and every answer                                        *)
(***************************************************************************)
Next ==
    \/ \E b \in {U_plain, U_path_slash, U_relative}, built \in BOOLEAN :
         NewWithOptions(b, <<"a">>, <<"b">>, FALSE, built)
    \/ \E net \in FewLoginOutcomes : CreateTokenResume(net)
    \/ \E i \in 1..MaxClients : Clone(i)
    \/ \E c \in CallIds, i \in 1..MaxClients :
         RegisterRevisionByApplication(c, i, [k \in 1..32 |-> 15], <<"1">>)
    \/ \E c \in CallIds, i \in 1..MaxClients :
         RegisterRevisionByStorageId(c, i, <<"s">>, <<"1">>)
    \/ \E c \in CallIds, i \in 1..MaxClients, path \in {<<"x">>, <<"h", "t", "t", "p", ":">>} :
         Raw(c, i, "GET", path, None)
    \/ \E c \in CallIds, net \in FewOutcomes : Resume(c, net)

Spec == Init /\ [][Next]_vars

NextLogin ==
    \/ \E b \in {U_plain, U_relative, U_opaque}, u \in Credentials, p \in Credentials,
          built \in BOOLEAN :
         NewWithOptions(b, u, p, FALSE, built)
    \/ \E net \in LoginOutcomes : CreateTokenResume(net)

SpecLogin == Init /\ [][NextLogin]_vars

NextUrl ==
    \/ \E b \in BaseUrls, certs \in BOOLEAN : NewWithOptions(b, <<"a">>, <<"b">>, certs, TRUE)
    \/ \E net \in FewLoginOutcomes : CreateTokenResume(net)
    \/ RegisterRevisionByApplication(1, 1, [k \in 1..32 |-> 15], <<"1">>)
    \/ RegisterRevisionByStorageId(1, 1, <<"s">>, <<"1">>)
    \/ \E m \in Methods, path \in RawPaths, body \in RawBodies : Raw(1, 1, m, path, body)
    \/ \E net \in FewOutcomes : Resume(1, net)

SpecUrl == Init /\ [][NextUrl]_vars

NextRegister ==
    \/ NewWithOptions(U_slash, <<"a">>, <<"b">>, TRUE, TRUE)
    \/ \E net \in FewLoginOutcomes : CreateTokenResume(net)
    \/ \E id \in Uuids, rev \in RevisionNumbers : RegisterRevisionByApplication(1, 1, id, rev)
    \/ \E name \in BindleNames, rev \in RevisionNumbers :
         RegisterRevisionByStorageId(1, 1, name, rev)
    \/ \E net \in Outcomes : Resume(1, net)

SpecRegister == Init /\ [][NextRegister]_vars


(***************************************************************************)
(* The claims.                                                             *)
(***************************************************************************)
RegisterOps == {"register_revision_by_application", "register_revision_by_storage_id"}
\* the registration calls that are over and whose request was answered
Answered(c) ==
    /\ calls[c].pc = "done"
    /\ calls[c].op \in RegisterOps
    /\ calls[c].response.kind = "response"

\* C1: a registration call whose request is answered returns Ok(()) if and
\* only if the status is 201 Created, and for every other status returns
\* InvalidRequest with the status of the response and Some(body text)
C1_StatusDecidesResult ==
    \A c \in CallIds :
        Answered(c) =>
            calls[c].result =
                IF calls[c].response.status = CREATED THEN Ok(<<>>)
                ELSE Err(InvalidRequest(calls[c].response.status,
                                        Some(calls[c].response.body)))

\* the member of key k of the parsed object j, or a null of kind "none"
Member(j, k) ==
    IF \E i \in 1..Len(j.v.items) : j.v.items[i].k = k
    THEN j.v.items[CHOOSE i \in 1..Len(j.v.items) : j.v.items[i].k = k].v
    ELSE JScalar("none", <<>>)

\* j is a JSON object whose members have exactly the keys ks, once each
ObjectOf(j, ks) ==
    /\ j.ok
    /\ j.v.t = "obj"
    /\ Len(j.v.items) = Cardinality(ks)
    /\ {j.v.items[i].k : i \in 1..Len(j.v.items)} = ks

\* the tokens whose login answers the specifications hold in full
SampleTokens == {<<"t">>, <<>>, <<"a", Q, BS, "\n">>, <<"t", "\n">>}

\* C2: a Client exists only once the login request was sent and its answer
\* parsed; its token is the token of that answer as it stands (an empty one
\* too); when the token acquisition fails its error is the error of the
\* construction and there is no Client
C2_ClientOnlyAfterLogin ==
    /\ clients # <<>> =>
          /\ ctor.pc = "done"
          /\ ctor.sent = 1
          /\ ctor.response.kind = "response"
          /\ ctor.token.tag = "Ok"
          /\ ctor.result.tag = "Ok"
          /\ ObjectOf(ParseJson(ctor.response.body), {K_token, K_expiration})
                => clients[1].auth_token = Member(ParseJson(ctor.response.body), K_token).s
          /\ \A t \in SampleTokens :
                ctor.response.body = GoodBody(t) => clients[1].auth_token = t
    /\ (ctor.pc = "done" /\ ctor.token.tag = "Err") =>
          /\ ctor.result = ctor.token
          /\ clients = <<>>
    /\ (ctor.pc = "done" /\ ctor.result.tag # "Ok") => clients = <<>>
    /\ (ctor.pc = "done" /\ ctor.result.tag = "Ok") => clients # <<>>

\* a Client built from an answer whose token is the empty string
C2_Witness ==
    /\ clients # <<>>
    /\ ctor.response.body = GoodBody(<<>>)
    /\ clients[1].auth_token = <<>>

\* C3: whatever the calls on a Client and on its clones do, each Client
\* keeps its base URL and its token, and the construction, once over, sends
\* nothing more
C3_ClientNeverChanges ==
    [][/\ \A i \in 1..Len(clients) : i <= Len(clients') /\ clients'[i] = clients[i]
       /\ \A i \in 1..Len(clients') :
             /\ clients'[i].base_url = ctor'.base
             /\ clients'[i].auth_token = ctor'.token.value
       /\ ctor.pc = "done" => ctor' = ctor]_vars

\* a registration refused with 401 while a call on another Client is under way
C3_Witness ==
    \E c, d \in CallIds :
        /\ calls[c].pc = "done"
        /\ calls[c].result.err.status_code = 401
        /\ calls[d].pc = "await"
        /\ calls[d].self # calls[c].self
        /\ clients[calls[c].self] = clients[calls[d].self]

\* C4: the login request carries no Authorization header, and every request
\* of raw and of the registration methods carries "Bearer " and the token
\* the construction obtained
C4_BearerOnEveryRequest ==
    /\ ctor.sent > 0 => ctor.request.authorization = None
    /\ \A c \in CallIds :
          calls[c].sent > 0 =>
              /\ calls[c].request.authorization = Some(Bearer(ctor.token.value))
              /\ ctor.token.tag = "Ok"

\* a raw call and a registration, both sent with the token of the login
C4_Witness ==
    \E c, d \in CallIds :
        /\ calls[c].op = "raw"
        /\ calls[d].op \in RegisterOps
        /\ calls[c].sent = 1
        /\ calls[d].sent = 1
        /\ calls[d].request.authorization = Some(Bearer(<<"t">>))

JNull == JScalar("null", <<>>)

\* C5: the body of every registration request is an object of appId,
\* appStorageId and revisionNumber; by application, appId is the id and
\* appStorageId is null; by storage id, appStorageId is the id and appId is
\* null; revisionNumber is the argument of the call
C5_ExactlyOneId ==
    \A c \in CallIds :
        (calls[c].op \in RegisterOps /\ calls[c].sent > 0) =>
            /\ ObjectOf(ParseJson(calls[c].request.body.v),
                        {K_appId, K_appStorageId, K_revisionNumber})
            /\ (Member(ParseJson(calls[c].request.body.v), K_appId) = JNull)
                  # (Member(ParseJson(calls[c].request.body.v), K_appStorageId) = JNull)
            /\ Member(ParseJson(calls[c].request.body.v), K_revisionNumber)
                  = JScalar("str", calls[c].args.revision_number)
            /\ calls[c].op = "register_revision_by_application" =>
                  /\ Member(ParseJson(calls[c].request.body.v), K_appId)
                        = JScalar("str", UuidToString(calls[c].args.application_id))
                  /\ Len(Member(ParseJson(calls[c].request.body.v), K_appId).s) = 36
            /\ calls[c].op = "register_revision_by_storage_id" =>
                  Member(ParseJson(calls[c].request.body.v), K_appStorageId)
                     = JScalar("str", calls[c].args.bindle_name)

\* a registration by a storage id that holds a quote, sent
C5_Witness ==
    /\ calls[1].op = "register_revision_by_storage_id"
    /\ calls[1].sent = 1
    /\ calls[1].args.bindle_name = <<"a", Q>>
    /\ calls[1].args.revision_number = <<Q, ",", Q>>

\* the answers to the login that arrived whole
LoginAnswered == ctor.pc = "done" /\ ctor.response.kind = "response"

\* the body is an object of exactly the two string fields token and expiration
TwoStringFields(body) ==
    /\ ObjectOf(ParseJson(body), {K_token, K_expiration})
    /\ Member(ParseJson(body), K_token).t = "str"
    /\ Member(ParseJson(body), K_expiration).t = "str"

\* C6: the construction succeeds only when the body of the login answer has
\* exactly the two string fields token and expiration, and fails with
\* SerializationError whenever it has not
C6_StrictTokenResponse ==
    LoginAnswered =>
        IF TwoStringFields(ctor.response.body) THEN ctor.result.tag = "Ok"
        ELSE ctor.result = Err(ClientError("SerializationError", "json"))

\* C7: a login answered 401 with a body that is no JSON ends in Unauthorized
C7_UnauthorizedOnLogin401 ==
    (LoginAnswered /\ ctor.response.status = 401 /\ ~ParseJson(ctor.response.body).ok) =>
        /\ ctor.result.tag = "Err"
        /\ ctor.result.err.kind = "Unauthorized"

\* C8: the body of the login request is a JSON object of exactly username
\* and password, whose values are the credentials given
C8_LoginBodyIsJson ==
    ctor.sent > 0 =>
        /\ ObjectOf(ParseJson(ctor.request.body.v), {K_username, K_password})
        /\ Member(ParseJson(ctor.request.body.v), K_username) = JScalar("str", ctor.username)
        /\ Member(ParseJson(ctor.request.body.v), K_password) = JScalar("str", ctor.password)

\* s ends with the text w
EndsWith(s, w) == Len(s) >= Len(w) /\ SubSeq(s, Len(s) - Len(w) + 1, Len(s)) = w

\* C9: the construction sends at most one request, the login POST to
\* account/createtoken, and none when the base does not parse or the
\* transport is not built; a registration sends at most one request, a POST
\* to api/revision; no call sends again after an error
C9_AtMostOneRequest ==
    /\ ctor.sent <= 1
    /\ ctor.sent = 1 =>
          ctor.request.method = "POST" /\ EndsWith(ctor.request.url, <<"/">> \o P_createtoken)
    /\ (ctor.pc = "done" /\ ctor.result.err.kind \in {"InvalidUrl", "Other"}) => ctor.sent = 0
    /\ \A c \in CallIds :
          /\ calls[c].sent <= 1
          /\ (calls[c].sent = 1 /\ calls[c].op \in RegisterOps) =>
                /\ calls[c].request.method = "POST"
                /\ EndsWith(calls[c].request.url, <<"/">> \o P_revision)
          /\ calls[c].pc = "await" => calls[c].sent = 1

\* a registration whose send failed: it is over, with the error Other,
\* after one request, and the construction before it sent one request too
C9_Witness ==
    \E c \in CallIds :
        /\ calls[c].pc = "done"
        /\ calls[c].op \in RegisterOps
        /\ calls[c].response.kind = "send_err"
        /\ calls[c].result = Err(ClientError("Other", "send"))
        /\ calls[c].sent = 1
        /\ ctor.sent = 1

\* the segments of a path without the empty one that a final "/" leaves
Kept(path) == IF path # <<>> /\ path[Len(path)] = <<>> THEN ButLast(path) ELSE path

\* C10: a base that does not parse yields InvalidUrl, the Client of any
\* other base holds the base with a "/" appended unless it ends with one,
\* and the url of each request keeps every segment of the path of the base
\* and appends the relative path
C10_BaseKeptInEveryUrl ==
    /\ (ctor.pc # "start" /\ ~UrlParse(NormalizeBase(ctor.base_url)).ok) =>
          ctor.result = Err(ClientError("InvalidUrl", "base"))
    /\ EndsWith(ctor.base_url, <<"/">>) => NormalizeBase(ctor.base_url) = ctor.base_url
    /\ ~EndsWith(ctor.base_url, <<"/">>) =>
          NormalizeBase(ctor.base_url) = ctor.base_url \o <<"/">>
    /\ clients # <<>> => clients[1].base_url = UrlParse(NormalizeBase(ctor.base_url)).v
    /\ ctor.sent > 0 =>
          UrlParse(ctor.request.url).v.path
             = Kept(UrlParse(ctor.base_url).v.path) \o Segments(P_createtoken)
    /\ \A c \in CallIds :
          (calls[c].sent > 0 /\ calls[c].op \in RegisterOps) =>
              UrlParse(calls[c].request.url).v.path
                 = Kept(UrlParse(ctor.base_url).v.path) \o Segments(P_revision)


====
